---- MODULE Spec2Model ----
(***************************************************************************)
(* The size-class mapping of tcmalloc (tcmalloc/common.h, class SizeMap):  *)
(* the class-index function, the four tables, their one-time construction  *)
(* and the lookup operations.  The build modelled is the default one       *)
(* (TCMALLOC_PAGE_SHIFT == 13).                                            *)
(*                                                                         *)
(* The lookups, the accessors and the constants are translated from        *)
(* common.h.  Init, SetSizeClasses, ValidSizeClasses,                      *)
(* MaybeRunTimeSizeClasses and the kSizeClasses table are only declared in *)
(* common.h; their bodies are modelled from the written specification      *)
(* (sections 4.3 and 7) and are marked as such where they are defined.     *)
(***************************************************************************)
EXTENDS Integers, Sequences, FiniteSets, TLC

VARIABLES
  class_array_,          \* unsigned char class_array_[kClassArraySize]
  num_objects_to_move_,  \* BatchSize num_objects_to_move_[kNumClasses]
  class_to_pages_,       \* unsigned char class_to_pages_[kNumClasses]
  class_to_size_,        \* uint32_t class_to_size_[kNumClasses]
  phase,                 \* "constructed" (Init() not run yet) or "ready"
  attempt,               \* the override Init() was offered, and the verdict
  call,                  \* the lookup in flight: its arguments and what it returned
  index,                 \* the class indices computed for a window of sizes
  threads                \* per thread: the call it is in, its position and its locals

vars == << class_array_, num_objects_to_move_, class_to_pages_, class_to_size_,
           phase, attempt, call, index, threads >>

tables == << class_array_, num_objects_to_move_, class_to_pages_, class_to_size_ >>

---------------------------------------------------------------------------
(* Configuration (the TCMALLOC_PAGE_SHIFT == 13 branch) *)

kPageShift == 13
kNumClasses == 86
kMaxSize == 256 * 1024
kMinObjectsToMove == 2
kMaxObjectsToMove == 128
kAlignment == 8
kMultiPageSize == 512
kMultiPageAlignment == 64
kMaxSmallSize == 1024

RECURSIVE Pow2(_)
Pow2(n) == IF n = 0 THEN 1 ELSE 2 * Pow2(n - 1)

\* x << n and x >> n on unsigned values
Shl(x, n) == x * Pow2(n)
Shr(x, n) == x \div Pow2(n)

\* static_cast<uint32_t>(x), and uint32_t arithmetic: the low 32 bits, taken
\* as two 16-bit halves (every value of this model is below 2^31)
Half == Pow2(16)
U32(x) == (x % Half) + Half * ((x \div Half) % Half)

\* a & b on unsigned values
RECURSIVE BitAnd(_, _)
BitAnd(a, b) ==
  IF a = 0 \/ b = 0 THEN 0
  ELSE (a % 2) * (b % 2) + 2 * BitAnd(a \div 2, b \div 2)

kPageSize == Shl(1, kPageShift)

\* kClassArraySize without the "+ 1": one element short
kClassArraySizeShort == Shr(kMaxSize + 127 + Shl(120, 7), 7)

kClassArraySize == Shr(kMaxSize + 127 + Shl(120, 7), 7) + 1

ClassIds == 0 .. (kNumClasses - 1)
ClassArrayIndices == 0 .. (kClassArraySize - 1)

---------------------------------------------------------------------------
(* The class-index function *)

\* The value of an output parameter the callee did not write.
Unwritten == 0 - 1

\* ClassIndexMaybe with the second segment's additive constant one bucket
\* short (119 << 7): the two segments overlap at index 128.
ClassIndexMaybeOverlap(s) ==
  IF s <= kMaxSmallSize
    THEN [ok |-> TRUE, idx |-> Shr(U32(U32(s) + 7), 3)]
  ELSE IF s <= kMaxSize
    THEN [ok |-> TRUE, idx |-> Shr(U32(U32(s) + 127 + Shl(119, 7)), 7)]
  ELSE [ok |-> FALSE, idx |-> Unwritten]

ClassIndexMaybe(s) ==
  IF s <= kMaxSmallSize
    THEN [ok |-> TRUE, idx |-> Shr(U32(U32(s) + 7), 3)]
  ELSE IF s <= kMaxSize
    THEN [ok |-> TRUE, idx |-> Shr(U32(U32(s) + 127 + Shl(120, 7)), 7)]
  ELSE [ok |-> FALSE, idx |-> Unwritten]

---------------------------------------------------------------------------
(* Accessors *)

\* ASSERT(cl < kNumClasses) of the three accessors
ClassIdInRange(cl) == cl < kNumClasses

\* class_to_size returning a 16-bit value
class_to_sizeNarrow(cl) == class_to_size_[cl] % Half

class_to_size(cl) == class_to_size_[cl]

class_to_pages(cl) == class_to_pages_[cl]

num_objects_to_move(cl) == num_objects_to_move_[cl]

---------------------------------------------------------------------------
(* Lookups.  Each returns a record: found (the bool returned), cl (the     *)
(* caller's variable after the call; cl0 is what it held before),          *)
(* reads (table elements read), steps (calls of class_to_size), assertHit  *)
(* (an ASSERT failed) and oob (class_array_ was indexed out of range; the   *)
(* element read is then not one of the array, and cl is left as it was).   *)

GetSizeClass(size, cl0) ==
  LET r == ClassIndexMaybe(size) IN
  IF r.ok
    THEN [found |-> TRUE,
          cl |-> IF r.idx \in ClassArrayIndices THEN class_array_[r.idx] ELSE cl0,
          reads |-> 1, steps |-> 0, assertHit |-> FALSE,
          oob |-> r.idx \notin ClassArrayIndices]
    ELSE [found |-> FALSE, cl |-> cl0, reads |-> 0, steps |-> 0,
          assertHit |-> FALSE, oob |-> FALSE]

\* The scan written as a while loop that increments before it tests: the
\* class of the plain lookup is skipped.
RECURSIVE ForwardScanFromNext(_, _, _)
ForwardScanFromNext(cl, mask, steps) ==
  IF U32(cl + 1) < kNumClasses
    THEN IF BitAnd(class_to_size_[U32(cl + 1)], mask) = 0
           THEN [found |-> TRUE, cl |-> U32(cl + 1), steps |-> steps + 1,
                 assertHit |-> FALSE]
           ELSE ForwardScanFromNext(U32(cl + 1), mask, steps + 1)
    ELSE [found |-> FALSE, cl |-> U32(cl + 1), steps |-> steps, assertHit |-> FALSE]

\* The scan without its loop: only the class of the plain lookup is tested.
ForwardScanNoLoop(cl, mask, steps) ==
  IF ~ClassIdInRange(cl)
    THEN [found |-> FALSE, cl |-> cl, steps |-> steps + 1, assertHit |-> TRUE]
    ELSE [found |-> BitAnd(class_to_size_[cl], mask) = 0, cl |-> cl,
          steps |-> steps + 1, assertHit |-> FALSE]

\* The do/while of the aligned lookup: test the class, else advance to the
\* next one while the incremented id is below kNumClasses.
RECURSIVE ForwardScan(_, _, _)
ForwardScan(cl, mask, steps) ==
  IF ~ClassIdInRange(cl)
    THEN [found |-> FALSE, cl |-> cl, steps |-> steps + 1, assertHit |-> TRUE]
  ELSE IF BitAnd(class_to_size(cl), mask) = 0
    THEN [found |-> TRUE, cl |-> cl, steps |-> steps + 1, assertHit |-> FALSE]
  ELSE IF U32(cl + 1) < kNumClasses
    THEN ForwardScan(U32(cl + 1), mask, steps + 1)
  ELSE [found |-> FALSE, cl |-> U32(cl + 1), steps |-> steps + 1, assertHit |-> FALSE]

\* The aligned lookup rejecting only align > kPageSize
GetSizeClassAlignedGt(size, align, cl0) ==
  IF align > kPageSize
    THEN [found |-> FALSE, cl |-> cl0, reads |-> 0, steps |-> 0,
          assertHit |-> FALSE, oob |-> FALSE]
  ELSE
    LET p == GetSizeClass(size, cl0) IN
    IF ~p.found
      THEN p
      ELSE LET s == ForwardScan(p.cl, align - 1, 0) IN
           [found |-> s.found, cl |-> s.cl,
            reads |-> p.reads + (IF s.assertHit THEN s.steps - 1 ELSE s.steps),
            steps |-> s.steps, assertHit |-> s.assertHit, oob |-> p.oob]

GetSizeClassAligned(size, align, cl0) ==
  IF align >= kPageSize
    THEN [found |-> FALSE, cl |-> cl0, reads |-> 0, steps |-> 0,
          assertHit |-> FALSE, oob |-> FALSE]
  ELSE
    LET p == GetSizeClass(size, cl0) IN
    IF ~p.found
      THEN p
      ELSE LET s == ForwardScan(p.cl, align - 1, 0) IN
           [found |-> s.found, cl |-> s.cl,
            reads |-> p.reads + (IF s.assertHit THEN s.steps - 1 ELSE s.steps),
            steps |-> s.steps, assertHit |-> s.assertHit, oob |-> p.oob]

\* ASSERT(size <= kMaxSize); uint32_t ret = 0; GetSizeClass(size, &ret); return ret;
SizeClass(size) ==
  LET p == GetSizeClass(size, 0) IN
  [p EXCEPT !.assertHit = ~(size <= kMaxSize)]

---------------------------------------------------------------------------
(* Size-class specifications.  kSizeClasses is defined in size_classes.cc, *)
(* which is not part of the sources at hand: the table below is a          *)
(* specification of kNumClasses entries that meets the validation rules,   *)
(* every class above kMaxSmallSize a multiple of 128.                      *)

kSizeClassesSize ==
  << 0, 8, 16, 24, 32, 40, 48, 56, 64, 72,
     80, 88, 96, 104, 112, 120, 128, 136, 144, 160,
     176, 192, 208, 224, 240, 256, 272, 288, 312, 336,
     352, 384, 408, 448, 480, 512, 576, 640, 704, 768,
     896, 1024, 1152, 1280, 1408, 1536, 1792, 2048, 2304, 2688,
     2816, 3200, 3456, 3584, 4096, 4736, 5376, 6144, 6528, 7168,
     8192, 9472, 10240, 12288, 14336, 16384, 20480, 24576, 28672, 32768,
     40960, 49152, 57344, 65536, 73728, 81920, 90112, 106496, 114688, 131072,
     147456, 172032, 188416, 204800, 237568, 262144 >>

kSizeClassesPages ==
  << 0, 1, 1, 1, 1, 1, 1, 1, 1, 1,
     1, 1, 1, 1, 1, 1, 1, 1, 1, 1,
     1, 1, 1, 1, 1, 1, 1, 1, 1, 1,
     1, 1, 1, 1, 1, 1, 1, 1, 1, 1,
     1, 1, 2, 2, 2, 2, 2, 2, 2, 2,
     3, 2, 3, 4, 2, 3, 2, 3, 4, 7,
     2, 5, 4, 3, 7, 2, 5, 3, 7, 4,
     5, 6, 7, 8, 9, 10, 11, 13, 14, 16,
     18, 21, 23, 25, 29, 32 >>

kSizeClassesNumToMove ==
  << 0, 32, 32, 32, 32, 32, 32, 32, 32, 32,
     32, 32, 32, 32, 32, 32, 32, 32, 32, 32,
     32, 32, 32, 32, 32, 32, 32, 32, 32, 32,
     32, 32, 32, 32, 32, 32, 32, 32, 32, 32,
     32, 32, 32, 32, 32, 32, 32, 32, 28, 24,
     23, 20, 18, 18, 16, 13, 12, 10, 10, 9,
     8, 6, 6, 5, 4, 4, 3, 2, 2, 2,
     2, 2, 2, 2, 2, 2, 2, 2, 2, 2,
     2, 2, 2, 2, 2, 2 >>

\* SizeClassInfo kSizeClasses[kNumClasses]: {size, pages, num_to_move} by class id
kSizeClasses ==
  [c \in ClassIds |-> [size |-> kSizeClassesSize[c + 1],
                       pages |-> kSizeClassesPages[c + 1],
                       num_to_move |-> kSizeClassesNumToMove[c + 1]]]

\* The class ids the override specifications below differ at.
EditedSmallClass == 10
EditedLargeClass == 42

\* What the environment may offer Init(): no override, or a parsed
\* specification (num_classes, parsed).  "aligned64" meets every validation
\* rule and has a class above kMaxSmallSize that is a multiple of 64 and not
\* of 128; each of the others breaks one rule.
Overrides ==
  { "none", "aligned64", "nonincreasing", "misaligned", "wrongcount", "badmove" }

Parsed(o) ==
  CASE o = "aligned64" ->
         [num_classes |-> kNumClasses,
          parsed |-> [kSizeClasses EXCEPT ![EditedLargeClass].size =
                        kSizeClasses[EditedLargeClass - 1].size + kMultiPageAlignment]]
    [] o = "nonincreasing" ->
         [num_classes |-> kNumClasses,
          parsed |-> [kSizeClasses EXCEPT ![EditedSmallClass].size =
                        kSizeClasses[EditedSmallClass - 1].size]]
    [] o = "misaligned" ->
         [num_classes |-> kNumClasses,
          parsed |-> [kSizeClasses EXCEPT ![EditedSmallClass].size = @ + 4]]
    [] o = "wrongcount" ->
         [num_classes |-> kNumClasses - 1,
          parsed |-> [c \in 0 .. (kNumClasses - 2) |-> kSizeClasses[c]]]
    [] o = "badmove" ->
         [num_classes |-> kNumClasses,
          parsed |-> [kSizeClasses EXCEPT ![EditedSmallClass].num_to_move =
                        kMaxObjectsToMove + 1]]
    [] OTHER -> [num_classes |-> kNumClasses, parsed |-> kSizeClasses]

---------------------------------------------------------------------------
(* Construction and validation (specification, section 4.3).  The class    *)
(* tables are handled as a record t = [size, pages, move] of the three     *)
(* arrays indexed by class id.                                             *)

\* The element types of the arrays: unsigned char
U8(x) == x % 256

\* "Populate class_to_size_, class_to_pages_, num_objects_to_move_ directly
\* from the specification, indexed by position"
SetSizeClasses(t, num_classes, parsed) ==
  [size |-> [c \in ClassIds |->
               IF c < num_classes THEN U32(parsed[c].size) ELSE t.size[c]],
   pages |-> [c \in ClassIds |->
               IF c < num_classes THEN U8(parsed[c].pages) ELSE t.pages[c]],
   move |-> [c \in ClassIds |->
               IF c < num_classes THEN U8(parsed[c].num_to_move) ELSE t.move[c]]]

\* The alignment a class size must be a multiple of
RequiredAlignment(size) ==
  IF size <= kMultiPageSize THEN kAlignment ELSE kMultiPageAlignment

\* One entry of a specification against the entry before it: strictly
\* larger, a multiple of its required alignment, a span that holds at least
\* one whole object, and num_to_move within its limits.
ValidSizeClass(parsed, c) ==
  /\ parsed[c].size > parsed[c - 1].size
  /\ parsed[c].size % RequiredAlignment(parsed[c].size) = 0
  /\ (parsed[c].pages * kPageSize) \div parsed[c].size >= 1
  /\ parsed[c].num_to_move >= kMinObjectsToMove
  /\ parsed[c].num_to_move <= kMaxObjectsToMove

ValidSizeClasses(num_classes, parsed) ==
  /\ num_classes = kNumClasses
  /\ parsed[0].size = 0
  /\ \A c \in 1 .. (num_classes - 1) : ValidSizeClass(parsed, c)
  /\ parsed[num_classes - 1].size = kMaxSize

\* The override installed before it is validated
MaybeRunTimeSizeClassesInstallFirst(t, o) ==
  IF o = "none"
    THEN [t |-> t, valid |-> FALSE]
    ELSE [t |-> SetSizeClasses(t, Parsed(o).num_classes, Parsed(o).parsed),
          valid |-> ValidSizeClasses(Parsed(o).num_classes, Parsed(o).parsed)]

\* The override offered is installed if it is valid; a rejected one leaves
\* the tables as they are.  Returns the tables and the verdict.
MaybeRunTimeSizeClasses(t, o) ==
  IF o = "none"
    THEN [t |-> t, valid |-> FALSE]
  ELSE IF ValidSizeClasses(Parsed(o).num_classes, Parsed(o).parsed)
    THEN [t |-> SetSizeClasses(t, Parsed(o).num_classes, Parsed(o).parsed),
          valid |-> TRUE]
  ELSE [t |-> t, valid |-> FALSE]

\* The smallest size that maps to class-index i
SmallestSizeOfIndex(i) ==
  IF i = 0 THEN 0
  ELSE IF i <= Shr(kMaxSmallSize + 7, 3) THEN Shl(i - 1, 3) + 1
  ELSE kMaxSmallSize + 1 + Shl(i - Shr(kMaxSmallSize + 7, 3) - 1, 7)

\* "the smallest class id whose canonical size is >= s", searched upwards
\* from class c
RECURSIVE SmallestClassFrom(_, _, _)
SmallestClassFrom(size, s, c) ==
  IF c >= kNumClasses - 1 \/ size[c] >= s THEN c
  ELSE SmallestClassFrom(size, s, c + 1)

\* "for every index i in the class-index space, finding the smallest class
\* id whose canonical size is >= the smallest size that maps to index i"
FillClassArray(size) ==
  [i \in ClassArrayIndices |-> U8(SmallestClassFrom(size, SmallestSizeOfIndex(i), 0))]

TablesNow ==
  [size |-> class_to_size_, pages |-> class_to_pages_, move |-> num_objects_to_move_]

---------------------------------------------------------------------------
(* State machine *)

\* Bounds of the lookups' arguments
ProbeDense == 1160
AlignedDense == 72
ProbeNear == 1
ProbeOver == 2
MaxAlignShift == 14
StaleCl == 200
IndexWindow == 1024
IndexOver == 2048

\* Bounds of the concurrent lookups: the threads, and the alignment whose
\* scan has to advance
NumThreads == 2
ThreadScanShift == 8

\* Every class size of every specification the model offers
AllClassSizes ==
  UNION { { Parsed(o).parsed[c].size : c \in DOMAIN Parsed(o).parsed } : o \in Overrides }

\* The sizes next to each class size, and the sizes just above kMaxSize
EdgeSizes ==
  { c + d : c \in AllClassSizes \ {0}, d \in (0 - ProbeNear) .. ProbeNear }
    \cup (kMaxSize .. (kMaxSize + ProbeOver))

\* The sizes of the plain lookups: every size of the 8-byte buckets and of
\* the first 128-byte bucket, and the edges.
ProbeSizes == (0 .. ProbeDense) \cup EdgeSizes

\* The sizes of the aligned lookups: the first 8-byte buckets and the edges
\* (every class is the plain class of one of them).
AlignedProbeSizes == (0 .. AlignedDense) \cup EdgeSizes

\* The alignments asked for: the powers of two up to 2^MaxAlignShift
ProbeAligns == { Pow2(k) : k \in 0 .. MaxAlignShift }

\* What the caller's class-id variable may hold before a call
ProbeCl0 == { 0, StaleCl }

Idle ==
  [op |-> "idle", size |-> 0, align |-> 0, found |-> FALSE, cl |-> 0,
   reads |-> 0, steps |-> 0, assertHit |-> FALSE, oob |-> FALSE]

Returned(op, size, align, r) ==
  [op |-> op, size |-> size, align |-> align, found |-> r.found, cl |-> r.cl,
   reads |-> r.reads, steps |-> r.steps, assertHit |-> r.assertHit, oob |-> r.oob]

Threads == 1 .. NumThreads

\* A thread that is in none of the calls
ThreadIdle ==
  [pc |-> "idle", op |-> "none", size |-> 0, align |-> 0, arg |-> 0,
   cl |-> 0, found |-> FALSE, val |-> 0]

\* SizeMap() {} on the process-wide instance: static storage, all zero
Init ==
  /\ class_array_ = [i \in ClassArrayIndices |-> 0]
  /\ num_objects_to_move_ = [c \in ClassIds |-> 0]
  /\ class_to_pages_ = [c \in ClassIds |-> 0]
  /\ class_to_size_ = [c \in ClassIds |-> 0]
  /\ phase = "constructed"
  /\ attempt = [offered |-> "none", valid |-> FALSE]
  /\ call = Idle
  /\ index = [lo |-> 0, next |-> 0, res |-> << >>]
  /\ threads = [t \in Threads |-> ThreadIdle]

\* SizeMap::Init(), run once at start-up: install the compiled-in default, try
\* the override of the environment, fill class_array_.
InitTables(o) ==
  LET d == SetSizeClasses(TablesNow, kNumClasses, kSizeClasses)
      m == MaybeRunTimeSizeClasses(d, o)
  IN [t |-> m.t, valid |-> m.valid, array |-> FillClassArray(m.t.size)]

SizeMapInit(o) ==
  /\ phase = "constructed"
  /\ call.op = "idle"
  /\ LET r == InitTables(o) IN
       /\ class_to_size_' = r.t.size
       /\ class_to_pages_' = r.t.pages
       /\ num_objects_to_move_' = r.t.move
       /\ class_array_' = r.array
       /\ attempt' = [offered |-> o, valid |-> r.valid]
  /\ phase' = "ready"
  /\ UNCHANGED << call, index, threads >>

CallGetSizeClass ==
  /\ call.op = "idle"
  /\ \E size \in ProbeSizes, cl0 \in ProbeCl0 :
       call' = Returned("GetSizeClass", size, 0, GetSizeClass(size, cl0))
  /\ UNCHANGED << tables, phase, attempt, index, threads >>

CallGetSizeClassAligned ==
  /\ call.op = "idle"
  /\ \E size \in AlignedProbeSizes, align \in ProbeAligns, cl0 \in ProbeCl0 :
       call' = Returned("GetSizeClassAligned", size, align,
                        GetSizeClassAligned(size, align, cl0))
  /\ UNCHANGED << tables, phase, attempt, index, threads >>

CallSizeClass ==
  /\ call.op = "idle"
  /\ \E size \in ProbeSizes :
       call' = Returned("SizeClass", size, 0, SizeClass(size))
  /\ UNCHANGED << tables, phase, attempt, index, threads >>

\* The caller takes the result.
Return ==
  /\ call.op # "idle"
  /\ call' = Idle
  /\ UNCHANGED << tables, phase, attempt, index, threads >>

Next ==
  \/ \E o \in Overrides : SizeMapInit(o)
  \/ CallGetSizeClass
  \/ CallGetSizeClassAligned
  \/ CallSizeClass
  \/ Return

Spec == Init /\ [][Next]_vars

\* The class-index function on its own: ClassIndexMaybe applied to the sizes
\* lo .. lo + IndexWindow, one window after the other (each starts at the
\* last size of the one before), up to IndexOver sizes above kMaxSize.
ClassIndexProbe ==
  /\ index.next <= kMaxSize + IndexOver
  /\ index' = [lo |-> index.next,
               next |-> index.next + IndexWindow,
               res |-> [s \in index.next .. (index.next + IndexWindow) |->
                          ClassIndexMaybe(s)]]
  /\ UNCHANGED << tables, phase, attempt, call, threads >>

SpecIndex == Init /\ [][ClassIndexProbe]_vars

---------------------------------------------------------------------------
(* Lookups by several threads.  Each thread runs one call at a time; a     *)
(* step of a thread is one read of a table together with the computation   *)
(* on the thread's own locals that follows it, and the steps of the        *)
(* threads interleave.  The threads start once Init() has returned.        *)

\* The overrides Init() is offered before the threads start
ThreadOverrides == { "none", "aligned64" }

\* The arguments of the threads' calls: a size whose plain class differs
\* between the two tables and the first size above kMaxSize; align = 1, an
\* alignment the scan has to advance for, and kPageSize; the class the two
\* tables differ at.
ThreadSizes == { kMaxSmallSize + kMultiPageAlignment + 1, kMaxSize + 1 }
ThreadAligns == { 1, Pow2(ThreadScanShift), kPageSize }
ThreadClasses == { EditedLargeClass }

ThreadCalls ==
  { [op |-> "GetSizeClass", size |-> s, align |-> 0, arg |-> 0] : s \in ThreadSizes }
    \cup { [op |-> "GetSizeClassAligned", size |-> s, align |-> a, arg |-> 0] :
             s \in ThreadSizes, a \in ThreadAligns }
    \cup { [op |-> "SizeClass", size |-> s, align |-> 0, arg |-> 0] :
             s \in { x \in ThreadSizes : x <= kMaxSize } }
    \cup { [op |-> o, size |-> 0, align |-> 0, arg |-> c] :
             o \in { "class_to_size", "class_to_pages", "num_objects_to_move" },
             c \in ThreadClasses }

\* A thread enters a call.  Its class-id variable holds a stale value, or
\* the 0 SizeClass sets its own to.
ThreadEnter(t) ==
  /\ phase = "ready"
  /\ threads[t].pc = "idle"
  /\ \E c \in ThreadCalls :
       threads' = [threads EXCEPT ![t] =
                     [pc |-> "entered", op |-> c.op, size |-> c.size,
                      align |-> c.align, arg |-> c.arg,
                      cl |-> IF c.op = "SizeClass" THEN 0 ELSE StaleCl,
                      found |-> FALSE, val |-> 0]]
  /\ UNCHANGED << tables, phase, attempt, call, index >>

\* The plain lookup, also as the first part of the aligned lookup and of
\* SizeClass: the test of align, ClassIndexMaybe, and the read of
\* class_array_[idx] into the thread's class-id variable.
ThreadGetSizeClass(t) ==
  /\ threads[t].pc = "entered"
  /\ threads[t].op \in { "GetSizeClass", "GetSizeClassAligned", "SizeClass" }
  /\ LET me == threads[t]
         r == ClassIndexMaybe(me.size)
     IN threads' = [threads EXCEPT ![t] =
          IF me.op = "GetSizeClassAligned" /\ me.align >= kPageSize
            THEN [me EXCEPT !.pc = "done", !.found = FALSE]
          ELSE IF ~r.ok
            THEN [me EXCEPT !.pc = "done", !.found = FALSE, !.val = me.cl]
          ELSE IF me.op = "GetSizeClassAligned"
            THEN [me EXCEPT !.pc = "scan", !.cl = class_array_[r.idx]]
          ELSE [me EXCEPT !.pc = "done", !.found = TRUE,
                          !.cl = class_array_[r.idx], !.val = class_array_[r.idx]]]
  /\ UNCHANGED << tables, phase, attempt, call, index >>

\* One iteration of the scan that also stores the class found for the size
\* in class_array_, for the lookups to come
ThreadScanCaching(t) ==
  /\ threads[t].pc = "scan"
  /\ LET me == threads[t]
         hit == BitAnd(class_to_size(me.cl), me.align - 1) = 0
     IN /\ threads' = [threads EXCEPT ![t] =
             IF hit THEN [me EXCEPT !.pc = "done", !.found = TRUE]
             ELSE IF U32(me.cl + 1) < kNumClasses
               THEN [me EXCEPT !.cl = U32(me.cl + 1)]
             ELSE [me EXCEPT !.pc = "done", !.found = FALSE, !.cl = U32(me.cl + 1)]]
        /\ class_array_' =
             IF hit THEN [class_array_ EXCEPT ![ClassIndexMaybe(me.size).idx] = me.cl]
             ELSE class_array_
  /\ UNCHANGED << num_objects_to_move_, class_to_pages_, class_to_size_,
                  phase, attempt, call, index >>

\* One iteration of the do/while of the aligned lookup: the read of
\* class_to_size_ at the thread's class id, the test against the mask, and
\* the increment of the class id.
ThreadScan(t) ==
  /\ threads[t].pc = "scan"
  /\ LET me == threads[t] IN
       threads' = [threads EXCEPT ![t] =
         IF BitAnd(class_to_size(me.cl), me.align - 1) = 0
           THEN [me EXCEPT !.pc = "done", !.found = TRUE]
         ELSE IF U32(me.cl + 1) < kNumClasses
           THEN [me EXCEPT !.cl = U32(me.cl + 1)]
         ELSE [me EXCEPT !.pc = "done", !.found = FALSE, !.cl = U32(me.cl + 1)]]
  /\ UNCHANGED << tables, phase, attempt, call, index >>

\* class_to_size(cl), class_to_pages(cl), num_objects_to_move(cl): the read
\* of the element
ThreadAccessor(t) ==
  /\ threads[t].pc = "entered"
  /\ threads[t].op \in { "class_to_size", "class_to_pages", "num_objects_to_move" }
  /\ ClassIdInRange(threads[t].arg)
  /\ LET me == threads[t] IN
       threads' = [threads EXCEPT ![t] =
         [me EXCEPT !.pc = "done",
                    !.val = CASE me.op = "class_to_size" -> class_to_size(me.arg)
                              [] me.op = "class_to_pages" -> class_to_pages(me.arg)
                              [] OTHER -> num_objects_to_move(me.arg)]]
  /\ UNCHANGED << tables, phase, attempt, call, index >>

\* The thread's caller takes the result.
ThreadReturn(t) ==
  /\ threads[t].pc = "done"
  /\ threads' = [threads EXCEPT ![t] = ThreadIdle]
  /\ UNCHANGED << tables, phase, attempt, call, index >>

NextThreads ==
  \/ \E o \in ThreadOverrides : SizeMapInit(o)
  \/ \E t \in Threads : ThreadEnter(t)
  \/ \E t \in Threads : ThreadGetSizeClass(t)
  \/ \E t \in Threads : ThreadScan(t)
  \/ \E t \in Threads : ThreadAccessor(t)
  \/ \E t \in Threads : ThreadReturn(t)

SpecThreads == Init /\ [][NextThreads]_vars

---------------------------------------------------------------------------
(* Claims *)

\* The sizes of the current window of SpecIndex
WindowSizes == DOMAIN index.res

\* C4: ClassIndexMaybe succeeds for every size up to kMaxSize with an index
\* inside class_array_, never decreases from a size to the next, steps by
\* exactly one from 1024 to 1025, ends at kClassArraySize - 1 for kMaxSize,
\* takes the documented values at 0, 1024, 1025, 32768 and 262144, and
\* fails for every size above kMaxSize.
C4_ClassIndexTotalMonotone ==
  \A s \in WindowSizes :
    LET r == index.res[s] IN
    /\ s <= kMaxSize => r.ok /\ r.idx \in ClassArrayIndices
    /\ s > kMaxSize => ~r.ok
    /\ (s + 1 \in WindowSizes /\ s + 1 <= kMaxSize) => r.idx <= index.res[s + 1].idx
    /\ s = 0 => r.idx = 0
    /\ s = 1024 => r.idx = 128
    /\ (s = 1024 /\ s + 1 \in WindowSizes) => index.res[s + 1].idx = r.idx + 1
    /\ s = 1025 => r.idx = 129
    /\ s = 32768 => r.idx = 376
    /\ s = 262144 => r.idx = 2168
    /\ s = kMaxSize => r.idx = kClassArraySize - 1

\* C4 witness: a window that holds kMaxSize and the first size that fails.
C4_Witness ==
  /\ kMaxSize \in WindowSizes /\ kMaxSize + 1 \in WindowSizes
  /\ index.res[kMaxSize].ok /\ ~index.res[kMaxSize + 1].ok

\* A window that holds the junction of the two segments.
C4_WitnessJunction ==
  /\ 1024 \in WindowSizes /\ 1025 \in WindowSizes
  /\ index.res[1025].idx = 129

C3_AlignOneIsPlain ==
  (call.op = "GetSizeClassAligned" /\ call.align = 1)
    => LET p == GetSizeClass(call.size, call.cl) IN
       /\ call.found = p.found
       /\ call.found => call.cl = p.cl
       /\ call.steps <= 1

\* C3 witness: after Init(), an aligned lookup with align = 1 that found a
\* class.
C3_Witness ==
  /\ phase = "ready"
  /\ call.op = "GetSizeClassAligned" /\ call.align = 1
  /\ call.found /\ call.cl > 0

\* What is wrong with a specification, as C5 lists it
Defective(o) ==
  LET n == Parsed(o).num_classes
      parsed == Parsed(o).parsed
  IN \/ n # kNumClasses
     \/ \E c \in 1 .. (n - 1) : parsed[c].size <= parsed[c - 1].size
     \/ \E c \in 1 .. (n - 1) : parsed[c].size % RequiredAlignment(parsed[c].size) # 0
     \/ \E c \in 1 .. (n - 1) :
          parsed[c].num_to_move \notin kMinObjectsToMove .. kMaxObjectsToMove

\* The tables of the compiled-in default
ZeroTables ==
  [size |-> [c \in ClassIds |-> 0], pages |-> [c \in ClassIds |-> 0],
   move |-> [c \in ClassIds |-> 0]]

DefaultTables == SetSizeClasses(ZeroTables, kNumClasses, kSizeClasses)

DefaultClassArray == FillClassArray(DefaultTables.size)

C8_BeforeInit ==
  phase = "constructed"
    => /\ call.op = "GetSizeClass" =>
            /\ call.size <= kMaxSize => call.found /\ call.cl = 0
            /\ call.size > kMaxSize => ~call.found
            /\ ~call.assertHit /\ ~call.oob
       /\ (call.op = "SizeClass" /\ call.size <= kMaxSize) =>
            /\ call.cl = 0
            /\ ~call.assertHit /\ ~call.oob

\* C8 witness: before Init(), the plain lookup of kMaxSize found class 0.
C8_Witness ==
  /\ phase = "constructed"
  /\ call.op = "GetSizeClass" /\ call.size = kMaxSize
  /\ call.found /\ call.cl = 0

\* C9: the aligned lookup returns false, without reading a table or failing
\* an assertion, whenever align >= kPageSize and whenever size > kMaxSize.
C9_FailuresAreValues ==
  (call.op = "GetSizeClassAligned"
     /\ (call.align >= kPageSize \/ call.size > kMaxSize))
    => /\ ~call.found
       /\ call.reads = 0 /\ call.steps = 0
       /\ ~call.assertHit /\ ~call.oob

\* C9 witness: after Init(), an aligned lookup with align >= kPageSize
\* failed for a size that a class with a size multiple of align could hold.
C9_Witness ==
  /\ phase = "ready"
  /\ call.op = "GetSizeClassAligned"
  /\ call.align >= kPageSize /\ call.size <= kMaxSize /\ call.size > 0
  /\ ~call.found
  /\ \E c \in ClassIds :
       class_to_size(c) >= call.size /\ class_to_size(c) % call.align = 0

\* C10: the scan of the aligned lookup calls class_to_size at most
\* kNumClasses times and only with class ids below kNumClasses, and after
\* Init() the lookup succeeds for every size up to kMaxSize and every
\* align up to kMultiPageAlignment.
C10_ScanTerminates ==
  call.op = "GetSizeClassAligned"
    => /\ call.steps <= kNumClasses
       /\ ~call.assertHit
       /\ (phase = "ready" /\ call.size <= kMaxSize
             /\ call.align <= kMultiPageAlignment) => call.found

\* C10 witness: after Init(), a lookup with align = kMultiPageAlignment
\* that found its class only after the scan had advanced.
C10_Witness ==
  /\ phase = "ready"
  /\ call.op = "GetSizeClassAligned" /\ call.align = kMultiPageAlignment
  /\ call.found /\ call.steps > 1

\* What the call thread t is in returns when it is made alone on the tables
\* as they are: the flag and the class id of the lookups, the value of
\* SizeClass and of the accessors.
ResultAlone(t) ==
  LET me == threads[t] IN
  CASE me.op = "GetSizeClass" ->
         [found |-> GetSizeClass(me.size, StaleCl).found,
          cl |-> GetSizeClass(me.size, StaleCl).cl]
    [] me.op = "GetSizeClassAligned" ->
         [found |-> GetSizeClassAligned(me.size, me.align, StaleCl).found,
          cl |-> GetSizeClassAligned(me.size, me.align, StaleCl).cl]
    [] me.op = "SizeClass" -> [val |-> SizeClass(me.size).cl]
    [] me.op = "class_to_size" -> [val |-> class_to_size(me.arg)]
    [] me.op = "class_to_pages" -> [val |-> class_to_pages(me.arg)]
    [] me.op = "num_objects_to_move" -> [val |-> num_objects_to_move(me.arg)]

\* What the call thread t has finished returned
ResultOf(t) ==
  LET me == threads[t] IN
  IF me.op \in { "GetSizeClass", "GetSizeClassAligned" }
    THEN [found |-> me.found, cl |-> me.cl]
    ELSE [val |-> me.val]

\* Every call a thread has finished has returned what the same call returns
\* when made alone on the tables.
ResultsAlone ==
  phase = "ready" =>
    \A t \in Threads : threads[t].pc = "done" => ResultOf(t) = ResultAlone(t)

\* C11: after Init(), no step of a plain or aligned lookup, of SizeClass, or
\* of class_to_size, class_to_pages or num_objects_to_move changes any of
\* the four tables, and every call a thread finishes, however its steps
\* were interleaved with those of the other threads, has returned what the
\* same call returns when made alone on the tables.
C11_LookupsArePureReads ==
  /\ [][phase = "ready" => tables' = tables]_vars
  /\ []ResultsAlone

\* C11 witness: after Init(), one thread is in the scan of an aligned lookup,
\* its class id already advanced past the plain lookup's, while another has
\* finished a lookup that found a class.
C11_Witness ==
  /\ phase = "ready"
  /\ \E t, u \in Threads :
       /\ t # u
       /\ threads[t].pc = "scan"
       /\ threads[t].cl > GetSizeClass(threads[t].size, 0).cl
       /\ threads[u].pc = "done"
       /\ threads[u].op \in { "GetSizeClass", "GetSizeClassAligned" }
       /\ threads[u].found

\* The closed form used to fill class_array_ agrees with ClassIndexMaybe:
\* SmallestSizeOfIndex(i) maps to i, and the size before it to i - 1.
SmallestSizeOfIndexIsRight ==
  \A i \in ClassArrayIndices :
    /\ ClassIndexMaybe(SmallestSizeOfIndex(i)).idx = i
    /\ i > 0 => ClassIndexMaybe(SmallestSizeOfIndex(i) - 1).idx = i - 1

====
